---- MODULE Spec2Model ----
(***************************************************************************)
(* A model of the holdings/trades question answering engine                *)
(* (src/chatbot.py, class DataChatbot).                                    *)
(*                                                                         *)
(* Strings are sequences of one-character strings, so that Python's        *)
(* `in`, lower(), strip() and split() are computed character by            *)
(* character.  A DataFrame is a record [loaded, rows]: loaded = FALSE is   *)
(* the Python value None that load_data leaves behind when read_csv        *)
(* raises; rows is the sequence of the table's rows.  An answer is a       *)
(* record holding the response's literal text template (head) and the      *)
(* values formatted into it, or the exception that left process_question.  *)
(***************************************************************************)
EXTENDS Integers, Sequences, FiniteSets, TLC

(***************************************************************************)
(* Python str operations                                                   *)
(***************************************************************************)
Range(s) == {s[i] : i \in DOMAIN s}

\* str.lower() on one character (ASCII letters; everything else is kept)
LowerOf ==
  ("A" :> "a") @@ ("B" :> "b") @@ ("C" :> "c") @@ ("D" :> "d") @@ ("E" :> "e") @@
  ("F" :> "f") @@ ("G" :> "g") @@ ("H" :> "h") @@ ("I" :> "i") @@ ("J" :> "j") @@
  ("K" :> "k") @@ ("L" :> "l") @@ ("M" :> "m") @@ ("N" :> "n") @@ ("O" :> "o") @@
  ("P" :> "p") @@ ("Q" :> "q") @@ ("R" :> "r") @@ ("S" :> "s") @@ ("T" :> "t") @@
  ("U" :> "u") @@ ("V" :> "v") @@ ("W" :> "w") @@ ("X" :> "x") @@ ("Y" :> "y") @@
  ("Z" :> "z")

lower_char(c) == IF c \in DOMAIN LowerOf THEN LowerOf[c] ELSE c

\* str.lower()
lower(s) == [i \in 1..Len(s) |-> lower_char(s[i])]

\* the characters str.strip() and str.split() treat as whitespace (those that
\* occur in the questions of the model)
Whitespace == {" ", "\t", "\n"}

\* a strip() that strips nothing
strip_nothing(s) == s

\* str.strip()
strip(s) ==
  LET keep == {i \in 1..Len(s) : s[i] \notin Whitespace}
  IN  IF keep = {} THEN <<>>
      ELSE LET lo == CHOOSE i \in keep : \A j \in keep : i <= j
               hi == CHOOSE i \in keep : \A j \in keep : j <= i
           IN  SubSeq(s, lo, hi)

\* Python's `p in s` on strings: p occurs in s as a contiguous substring
Contains(p, s) ==
  \E i \in 1..(Len(s) - Len(p) + 1) : \A j \in 1..Len(p) : s[i + j - 1] = p[j]

\* any(phrase in s for phrase in phrases)
AnyIn(phrases, s) == \E k \in 1..Len(phrases) : Contains(phrases[k], s)

\* str.split(): the maximal runs of non-whitespace characters, in order
RECURSIVE split_from(_, _, _)
split_from(s, i, word) ==
  IF i > Len(s) THEN (IF word = <<>> THEN <<>> ELSE <<word>>)
  ELSE IF s[i] \in Whitespace
       THEN (IF word = <<>> THEN <<>> ELSE <<word>>) \o split_from(s, i + 1, <<>>)
       ELSE split_from(s, i + 1, Append(word, s[i]))

split(s) == split_from(s, 1, <<>>)

\* the code points of the characters that occur in names, in ascending order
CodePointOrder ==
  << " ", ".", "0", "1", "2", "3", "4", "5", "6", "7", "8", "9",
     "A", "B", "C", "D", "E", "F", "G", "H", "I", "J", "K", "L", "M",
     "N", "O", "P", "Q", "R", "S", "T", "U", "V", "W", "X", "Y", "Z",
     "a", "b", "c", "d", "e", "f", "g", "h", "i", "j", "k", "l", "m",
     "n", "o", "p", "q", "r", "s", "t", "u", "v", "w", "x", "y", "z" >>

ord(c) == CHOOSE k \in DOMAIN CodePointOrder : CodePointOrder[k] = c

\* Python's < on strings: lexicographic by code point, a proper prefix first
RECURSIVE str_less(_, _)
str_less(a, b) ==
  IF b = <<>> THEN FALSE
  ELSE IF a = <<>> THEN TRUE
  ELSE IF Head(a) = Head(b) THEN str_less(Tail(a), Tail(b))
  ELSE ord(Head(a)) < ord(Head(b))

\* the words of a text joined by single spaces
RECURSIVE Join(_)
Join(ws) ==
  IF ws = <<>> THEN <<>>
  ELSE IF Len(ws) = 1 THEN ws[1]
  ELSE ws[1] \o <<" ">> \o Join(Tail(ws))

(***************************************************************************)
(* Words of the trigger phrases, of the data and of the questions          *)
(***************************************************************************)
w_list == <<"l", "i", "s", "t">>
w_all == <<"a", "l", "l">>
w_funds == <<"f", "u", "n", "d", "s">>
w_what == <<"w", "h", "a", "t">>
w_which == <<"w", "h", "i", "c", "h">>
w_are == <<"a", "r", "e">>
w_there == <<"t", "h", "e", "r", "e">>
w_show == <<"s", "h", "o", "w">>
w_available == <<"a", "v", "a", "i", "l", "a", "b", "l", "e">>
w_total == <<"t", "o", "t", "a", "l">>
w_holdings == <<"h", "o", "l", "d", "i", "n", "g", "s">>
w_how == <<"h", "o", "w">>
w_many == <<"m", "a", "n", "y">>
w_trades == <<"t", "r", "a", "d", "e", "s">>
w_best == <<"b", "e", "s", "t">>
w_performing == <<"p", "e", "r", "f", "o", "r", "m", "i", "n", "g">>
w_top == <<"t", "o", "p">>
w_highest == <<"h", "i", "g", "h", "e", "s", "t">>
w_profit == <<"p", "r", "o", "f", "i", "t">>
w_fund == <<"f", "u", "n", "d">>
w_performed == <<"p", "e", "r", "f", "o", "r", "m", "e", "d">>
w_better == <<"b", "e", "t", "t", "e", "r">>
w_worst == <<"w", "o", "r", "s", "t">>
w_lowest == <<"l", "o", "w", "e", "s", "t">>
w_poor == <<"p", "o", "o", "r">>
w_performance == <<"p", "e", "r", "f", "o", "r", "m", "a", "n", "c", "e">>
w_ranking == <<"r", "a", "n", "k", "i", "n", "g">>
w_rank == <<"r", "a", "n", "k">>
w_compare == <<"c", "o", "m", "p", "a", "r", "e">>
w_ytd == <<"y", "t", "d">>
w_yearly == <<"y", "e", "a", "r", "l", "y">>
w_year == <<"y", "e", "a", "r">>
w_to == <<"t", "o">>
w_date == <<"d", "a", "t", "e">>
w_annual == <<"a", "n", "n", "u", "a", "l">>
w_and == <<"a", "n", "d">>
w_loss == <<"l", "o", "s", "s">>
w_pnl == <<"p", "n", "l">>
w_p_and_l == <<"p", "&", "l">>
w_mtd == <<"m", "t", "d">>
w_month == <<"m", "o", "n", "t", "h">>
w_qtd == <<"q", "t", "d">>
w_quarter == <<"q", "u", "a", "r", "t", "e", "r">>
w_securities == <<"s", "e", "c", "u", "r", "i", "t", "i", "e", "s">>
w_for == <<"f", "o", "r">>
w_security == <<"s", "e", "c", "u", "r", "i", "t", "y">>
w_types == <<"t", "y", "p", "e", "s">>
w_asset == <<"a", "s", "s", "e", "t">>
w_type == <<"t", "y", "p", "e">>
w_of == <<"o", "f">>
w_assets == <<"a", "s", "s", "e", "t", "s">>
w_trade == <<"t", "r", "a", "d", "e">>
w_buy == <<"b", "u", "y">>
w_sell == <<"s", "e", "l", "l">>
w_buys == <<"b", "u", "y", "s">>
w_sells == <<"s", "e", "l", "l", "s">>
w_summary == <<"s", "u", "m", "m", "a", "r", "y">>
w_number == <<"n", "u", "m", "b", "e", "r">>
w_market == <<"m", "a", "r", "k", "e", "t">>
w_value == <<"v", "a", "l", "u", "e">>
w_mv == <<"m", "v">>
w_aum == <<"a", "u", "m">>
w_custodian == <<"c", "u", "s", "t", "o", "d", "i", "a", "n">>
w_counterpart == <<"c", "o", "u", "n", "t", "e", "r", "p", "a", "r", "t">>
w_equity == <<"e", "q", "u", "i", "t", "y">>
w_bond == <<"b", "o", "n", "d">>
w_quantity == <<"q", "u", "a", "n", "t", "i", "t", "y">>
w_qty == <<"q", "t", "y">>
w_help == <<"h", "e", "l", "p">>
w_can == <<"c", "a", "n">>
w_you == <<"y", "o", "u">>
w_commands == <<"c", "o", "m", "m", "a", "n", "d", "s">>
w_examples == <<"e", "x", "a", "m", "p", "l", "e", "s">>
w_How == <<"H", "o", "w">>
w_Total == <<"T", "o", "t", "a", "l">>
w_Number == <<"N", "u", "m", "b", "e", "r">>
w_YTD == <<"Y", "T", "D">>
w_MTD == <<"M", "T", "D">>
w_P_and_L == <<"P", "&", "L">>
w_What == <<"W", "h", "a", "t">>
w_Best == <<"B", "e", "s", "t">>
w_Worst == <<"W", "o", "r", "s", "t">>
w_Fund == <<"F", "u", "n", "d">>
w_Market == <<"M", "a", "r", "k", "e", "t">>
w_Trade == <<"T", "r", "a", "d", "e">>
w_List == <<"L", "i", "s", "t">>
w_Ytum == <<"Y", "t", "u", "m">>
w_Main == <<"M", "a", "i", "n">>
w_HoldCo == <<"H", "o", "l", "d", "C", "o">>
w_n1 == <<"1">>
w_Zzz == <<"Z", "z", "z">>
w_ytum == <<"y", "t", "u", "m">>
w_main == <<"m", "a", "i", "n">>
w_holdco == <<"h", "o", "l", "d", "c", "o">>
w_hello == <<"h", "e", "l", "l", "o">>
w_the == <<"t", "h", "e">>
w_orders == <<"o", "r", "d", "e", "r", "s">>
w_does == <<"d", "o", "e", "s">>
w_hold_q == <<"h", "o", "l", "d", "?">>
w_trades_q == <<"t", "r", "a", "d", "e", "s", "?">>
w_custodians_q == <<"c", "u", "s", "t", "o", "d", "i", "a", "n", "s", "?">>
w_counterparties_q == <<"c", "o", "u", "n", "t", "e", "r", "p", "a", "r", "t", "i", "e", "s", "?">>
w_there_q == <<"t", "h", "e", "r", "e", "?">>
w_Option == <<"O", "p", "t", "i", "o", "n">>
w_AssetBacked == <<"A", "s", "s", "e", "t", "B", "a", "c", "k", "e", "d">>
w_FX == <<"F", "X">>
w_Forward == <<"F", "o", "r", "w", "a", "r", "d">>
w_ACME == <<"A", "C", "M", "E">>
w_TBOND == <<"T", "B", "O", "N", "D">>
w_Equity == <<"E", "q", "u", "i", "t", "y">>
w_Bond == <<"B", "o", "n", "d">>
w_CITI == <<"C", "I", "T", "I">>
w_JPM == <<"J", "P", "M">>
w_GS == <<"G", "S">>
w_MS == <<"M", "S">>
w_Buy == <<"B", "u", "y">>
w_Sell == <<"S", "e", "l", "l">>

(***************************************************************************)
(* The rules of process_question: their trigger phrases, in the order of   *)
(* the if-statements of the code                                           *)
(***************************************************************************)
how_many == Join(<<w_how, w_many>>)
month_to_date == Join(<<w_month, w_to, w_date>>)
quarter_to_date == Join(<<w_quarter, w_to, w_date>>)
number_of == Join(<<w_number, w_of>>)

ListFundsPhrases ==
  << Join(<<w_list, w_all, w_funds>>), Join(<<w_all, w_funds>>),
     Join(<<w_what, w_funds>>), Join(<<w_which, w_funds, w_are, w_there>>),
     Join(<<w_show, w_funds>>), Join(<<w_available, w_funds>>) >>

BestPhrases ==
  << Join(<<w_best, w_performing>>), Join(<<w_top, w_performing>>),
     Join(<<w_highest, w_profit>>), Join(<<w_best, w_fund>>),
     Join(<<w_top, w_fund>>), Join(<<w_performed, w_better>>),
     Join(<<w_which, w_fund, w_performed>>) >>

WorstPhrases ==
  << Join(<<w_worst, w_performing>>), Join(<<w_lowest, w_profit>>),
     Join(<<w_worst, w_fund>>), Join(<<w_poor, w_performing>>),
     Join(<<w_lowest, w_performing>>) >>

RankingPhrases ==
  << Join(<<w_fund, w_performance>>), Join(<<w_performance, w_ranking>>),
     Join(<<w_rank, w_funds>>), Join(<<w_compare, w_funds>>) >>

YtdPhrases ==
  << w_ytd, w_yearly, Join(<<w_year, w_to, w_date>>), w_annual,
     Join(<<w_profit, w_and, w_loss>>), w_pnl, w_p_and_l, w_profit, w_loss >>

SecuritiesPhrases ==
  << w_securities, Join(<<w_what, w_securities>>),
     Join(<<w_which, w_securities>>), Join(<<w_holdings, w_for>>) >>

SecurityTypesPhrases ==
  << Join(<<w_security, w_types>>), Join(<<w_asset, w_types>>),
     Join(<<w_type, w_of, w_securities>>), Join(<<w_types, w_of, w_assets>>) >>

TradeTypesPhrases ==
  << Join(<<w_trade, w_types>>), Join(<<w_buy, w_and, w_sell>>),
     Join(<<w_buys, w_and, w_sells>>), Join(<<w_trade, w_summary>>) >>

MarketValuePhrases ==
  << Join(<<w_market, w_value>>), Join(<<w_total, w_value>>), w_mv, w_aum >>

\* the keywords of the security-type rule, as written in its loop
SecTypeKeywords ==
  << w_Equity, w_Bond, w_Option, w_AssetBacked, Join(<<w_FX, w_Forward>>) >>

HelpPhrases ==
  << w_help, Join(<<w_what, w_can, w_you>>), w_commands, w_examples >>

\* the number of if-statements that test a trigger, and the positions of
\* the two returns that belong to no rule
NumRules == 20
EmptyCheck == 0
NoRule == 21

\* the condition of the i-th if-statement on the lowercased, stripped question
Trigger(i, question_lower) ==
  CASE i = 1 -> AnyIn(ListFundsPhrases, question_lower)
    [] i = 2 -> \/ (Contains(w_total, question_lower) /\ Contains(w_holdings, question_lower))
                \/ (Contains(how_many, question_lower) /\ Contains(w_holdings, question_lower))
    [] i = 3 -> \/ (Contains(w_total, question_lower) /\ Contains(w_trades, question_lower))
                \/ (Contains(how_many, question_lower) /\ Contains(w_trades, question_lower))
    [] i = 4 -> AnyIn(BestPhrases, question_lower)
    [] i = 5 -> AnyIn(WorstPhrases, question_lower)
    [] i = 6 -> AnyIn(RankingPhrases, question_lower)
    [] i = 7 -> AnyIn(YtdPhrases, question_lower)
    [] i = 8 -> \/ Contains(w_mtd, question_lower)
                \/ Contains(month_to_date, question_lower)
    [] i = 9 -> \/ Contains(w_qtd, question_lower)
                \/ Contains(quarter_to_date, question_lower)
    [] i = 10 -> AnyIn(SecuritiesPhrases, question_lower)
    [] i = 11 -> AnyIn(SecurityTypesPhrases, question_lower)
    [] i = 12 -> AnyIn(TradeTypesPhrases, question_lower)
    [] i = 13 -> /\ Contains(w_buy, question_lower)
                 /\ \/ Contains(how_many, question_lower)
                    \/ Contains(number_of, question_lower)
                    \/ Contains(w_total, question_lower)
    [] i = 14 -> /\ Contains(w_sell, question_lower)
                 /\ \/ Contains(how_many, question_lower)
                    \/ Contains(number_of, question_lower)
                    \/ Contains(w_total, question_lower)
    [] i = 15 -> AnyIn(MarketValuePhrases, question_lower)
    [] i = 16 -> Contains(w_custodian, question_lower)
    [] i = 17 -> Contains(w_counterpart, question_lower)
    [] i = 18 -> \E k \in 1..Len(SecTypeKeywords) :
                   Contains(lower(SecTypeKeywords[k]), question_lower)
    [] i = 19 -> Contains(w_quantity, question_lower) \/ Contains(w_qty, question_lower)
    [] i = 20 -> AnyIn(HelpPhrases, question_lower)

\* the if-chain with the P&L rule and the trades-count rule in each other's place
rule_at(k) == IF k = 3 THEN 7 ELSE IF k = 7 THEN 3 ELSE k

RECURSIVE first_match_pnl_before_trades(_, _)
first_match_pnl_before_trades(question_lower, k) ==
  IF k > NumRules THEN NoRule
  ELSE IF Trigger(rule_at(k), question_lower) THEN rule_at(k)
  ELSE first_match_pnl_before_trades(question_lower, k + 1)

\* the if-chain: the first rule, from rule i on, whose condition holds;
\* NoRule when control reaches the final return
RECURSIVE first_match(_, _)
first_match(question_lower, i) ==
  IF i > NumRules THEN NoRule
  ELSE IF Trigger(i, question_lower) THEN i
  ELSE first_match(question_lower, i + 1)

(***************************************************************************)
(* The two tables                                                          *)
(***************************************************************************)
\* the rows a holdings.csv of the model can hold (amounts in whole dollars)
h_ytum ==
  [ShortName |-> w_Ytum, PortfolioName |-> Join(<<w_Ytum, w_Main>>),
   SecName |-> w_ACME, SecurityTypeName |-> w_Equity, CustodianName |-> w_CITI,
   Qty |-> 10, MV_Base |-> 100, PL_YTD |-> 5, PL_MTD |-> 1, PL_QTD |-> 2]

h_holdco ==
  [ShortName |-> Join(<<w_HoldCo, w_n1>>), PortfolioName |-> Join(<<w_HoldCo, w_n1>>),
   SecName |-> w_TBOND, SecurityTypeName |-> w_Bond, CustodianName |-> w_JPM,
   Qty |-> 20, MV_Base |-> 250, PL_YTD |-> -3, PL_MTD |-> 2, PL_QTD |-> -1]

HoldingRows == {h_ytum, h_holdco}

\* the rows a trades.csv of the model can hold
t_holdco_buy ==
  [PortfolioName |-> Join(<<w_HoldCo, w_n1>>), CustodianName |-> w_CITI,
   Counterparty |-> w_GS, TradeTypeName |-> w_Buy]

t_ytum_sell ==
  [PortfolioName |-> w_Ytum, CustodianName |-> w_JPM,
   Counterparty |-> w_MS, TradeTypeName |-> w_Sell]

TradeRows == {t_holdco_buy, t_ytum_sell}

\* the largest number of rows of each table
MaxHoldings == 2
MaxTrades == 2

\* the largest number of calls of a recorded session
MaxCalls == 3

SeqsUpTo(S, n) == UNION {[1..k -> S] : k \in 0..n}

\* a DataFrame read by read_csv, and the None a failed load leaves behind
DataFrame(rows) == [loaded |-> TRUE, rows |-> rows]
NoneDF == [loaded |-> FALSE, rows |-> <<>>]

\* pandas' missing value in a text column (read_csv reads an empty field as NaN,
\* so no loaded text value is the empty string)
NaN == <<>>

\* Python's None as a fund name
None == <<>>

\* an optional number: Python's None, or a number
Nothing == [some |-> FALSE, val |-> 0]
Some(v) == [some |-> TRUE, val |-> v]

VARIABLES
  holdings_df,   \* self.holdings_df
  trades_df,     \* self.trades_df
  set_order,     \* the iteration order of this process's set of fund names
  pc,            \* "idle": waiting for a question; "asked": a call is pending
  question,      \* the argument of the last process_question call
  rule,          \* the if-statement whose body answered it (-1: no call yet)
  answer,        \* what the last call returned or raised
  history,       \* the calls of a recorded session, in order: [question, answer]
  snapshot,      \* the two tables as load_data left them
  http,          \* the /ask request handled last, and how it ended
  requests,      \* the /ask requests that run concurrently, one record each
  main           \* the interactive loop of main()

vars ==
  <<holdings_df, trades_df, set_order, pc, question, rule, answer, history,
    snapshot, http, requests, main>>

\* the state of the callers that an action of another caller leaves alone
web_vars == <<http, requests>>

(***************************************************************************)
(* pandas and Python helpers                                               *)
(***************************************************************************)
\* df[col] as a sequence of values
Col(df, col) == [i \in 1..Len(df.rows) |-> df.rows[i][col]]

\* Series.dropna().unique(): the distinct present values, by first appearance
RECURSIVE unique(_)
unique(s) ==
  IF s = <<>> THEN <<>>
  ELSE LET u == unique(SubSeq(s, 1, Len(s) - 1))
           x == s[Len(s)]
       IN  IF x \in Range(u) THEN u ELSE Append(u, x)

dropna(s) == SelectSeq(s, LAMBDA x : x # NaN)

\* sorted() of a collection of distinct strings
RECURSIVE sorted(_)
sorted(S) ==
  IF S = {} THEN <<>>
  ELSE LET m == CHOOSE x \in S : \A y \in S \ {x} : str_less(x, y)
       IN  <<m>> \o sorted(S \ {m})

\* Series.sum()
RECURSIVE sum(_)
sum(s) == IF s = <<>> THEN 0 ELSE Head(s) + sum(Tail(s))

\* a stable sort of [name, value] items by value (insertion after the equal ones)
RECURSIVE insert_by_value(_, _, _)
insert_by_value(items, x, descending) ==
  IF items = <<>> THEN <<x>>
  ELSE IF (IF descending THEN Head(items).value >= x.value
                         ELSE Head(items).value <= x.value)
       THEN <<Head(items)>> \o insert_by_value(Tail(items), x, descending)
       ELSE <<x>> \o items

RECURSIVE sort_by_value(_, _)
sort_by_value(items, descending) ==
  IF items = <<>> THEN <<>>
  ELSE insert_by_value(sort_by_value(SubSeq(items, 1, Len(items) - 1), descending),
                       items[Len(items)], descending)

\* enumerate(series.items(), 1): each item with its one-based number
enumerate(items) ==
  [k \in 1..Len(items) |-> [i |-> k, name |-> items[k].name, value |-> items[k].value]]

\* Series.head(n)
head(s, n) == SubSeq(s, 1, IF Len(s) < n THEN Len(s) ELSE n)

\* the grouping done on the portfolio name instead of the short name
groupby_sum_by_portfolio(col) ==
  LET keys == sorted(Range(dropna(Col(holdings_df, "PortfolioName"))))
  IN  [k \in 1..Len(keys) |->
        [name |-> keys[k],
         value |-> sum(Col(DataFrame(SelectSeq(holdings_df.rows,
                             LAMBDA row : row.PortfolioName = keys[k])), col))]]

\* holdings_df.groupby('ShortName')[col].sum(): one item per present short
\* name, in ascending order of the name
groupby_sum(col) ==
  LET keys == sorted(Range(dropna(Col(holdings_df, "ShortName"))))
  IN  [k \in 1..Len(keys) |->
        [name |-> keys[k],
         value |-> sum(Col(DataFrame(SelectSeq(holdings_df.rows,
                             LAMBDA row : row.ShortName = keys[k])), col))]]

\* re.search(pat, s) for a pattern of ordinary characters and ".", the one
\* metacharacter in the names of the model: "." matches any character
regex_search(pat, s) ==
  \E i \in 1..(Len(s) - Len(pat) + 1) :
    \A j \in 1..Len(pat) : pat[j] = "." \/ s[i + j - 1] = pat[j]

\* Series.str.lower().str.contains(fund_name.lower(), na=False) on one value:
\* the name is searched as a regular expression (regex=True is the default)
str_contains(value, fund_name) ==
  value # NaN /\ regex_search(lower(fund_name), lower(value))

\* the mask over ShortName and PortfolioName of the fund-scoped holdings queries
holdings_mask(row, fund_name) ==
  \/ str_contains(row.ShortName, fund_name)
  \/ str_contains(row.PortfolioName, fund_name)

\* holdings_df[mask]
filtered(fund_name) ==
  SelectSeq(holdings_df.rows, LAMBDA row : holdings_mask(row, fund_name))

(***************************************************************************)
(* The query methods of DataChatbot                                        *)
(***************************************************************************)
\* the fund set without the portfolio names of the trades
get_all_funds_holdings_only ==
  Range(dropna(Col(holdings_df, "ShortName")))
    \cup Range(dropna(Col(holdings_df, "PortfolioName")))

get_all_funds ==
  LET holdings_funds == Range(dropna(Col(holdings_df, "ShortName")))
      holdings_portfolios == Range(dropna(Col(holdings_df, "PortfolioName")))
      trades_portfolios == Range(dropna(Col(trades_df, "PortfolioName")))
  IN  holdings_funds \cup holdings_portfolios \cup trades_portfolios

get_total_holdings_for_fund(fund_name) ==
  LET count == Len(filtered(fund_name))
  IN  IF count > 0 THEN Some(count) ELSE Nothing

get_total_trades_for_fund(fund_name) ==
  LET count == Len(SelectSeq(trades_df.rows,
                     LAMBDA row : str_contains(row.PortfolioName, fund_name)))
  IN  IF count > 0 THEN Some(count) ELSE Nothing

get_total_holdings == Len(holdings_df.rows)

get_total_trades == Len(trades_df.rows)

\* the fund's sum without the test that the fund has rows
get_fund_pnl_unchecked(col, fund_name) ==
  Some(sum(Col(DataFrame(filtered(fund_name)), col)))

\* get_fund_pnl_ytd, get_pnl_mtd and get_pnl_qtd with a fund name: the
\* sum of the column over the fund's rows
get_fund_pnl(col, fund_name) ==
  IF Len(filtered(fund_name)) > 0
  THEN Some(sum(Col(DataFrame(filtered(fund_name)), col)))
  ELSE Nothing

\* the same three methods without a fund name: the dict of every fund's sum
get_all_pnl(col) == groupby_sum(col)

\* the first n groups taken before the sort
get_best_performing_funds_head_first(n) ==
  sort_by_value(head(groupby_sum("PL_YTD"), n), TRUE)

get_best_performing_funds(n) == head(sort_by_value(groupby_sum("PL_YTD"), TRUE), n)

get_worst_performing_funds(n) == head(sort_by_value(groupby_sum("PL_YTD"), FALSE), n)

get_fund_performance_ranking == sort_by_value(groupby_sum("PL_YTD"), TRUE)

get_securities_for_fund(fund_name) ==
  unique(Col(DataFrame(filtered(fund_name)), "SecName"))

get_security_types_for_fund(fund_name) ==
  unique(Col(DataFrame(filtered(fund_name)), "SecurityTypeName"))

\* value_counts(): one item per trade type, the most frequent first, equally
\* frequent ones in the order of their first row
get_trade_types_summary ==
  LET types == unique(dropna(Col(trades_df, "TradeTypeName")))
  IN  sort_by_value(
        [k \in 1..Len(types) |->
          [name |-> types[k],
           value |-> Len(SelectSeq(trades_df.rows,
                           LAMBDA row : row.TradeTypeName = types[k]))]],
        TRUE)

get_trades_by_type(trade_type) ==
  Len(SelectSeq(trades_df.rows,
        LAMBDA row : lower(row.TradeTypeName) = lower(trade_type)))

get_fund_market_value(fund_name) ==
  IF Len(filtered(fund_name)) > 0
  THEN Some(sum(Col(DataFrame(filtered(fund_name)), "MV_Base")))
  ELSE Nothing

get_custodians ==
  LET holdings_custodians == Range(dropna(Col(holdings_df, "CustodianName")))
      trades_custodians == Range(dropna(Col(trades_df, "CustodianName")))
  IN  holdings_custodians \cup trades_custodians

get_counterparties == unique(dropna(Col(trades_df, "Counterparty")))

get_security_types == unique(dropna(Col(holdings_df, "SecurityTypeName")))

get_holdings_by_security_type(sec_type) ==
  Len(SelectSeq(holdings_df.rows,
        LAMBDA row : str_contains(row.SecurityTypeName, sec_type)))

get_total_quantity_for_fund(fund_name) ==
  IF Len(filtered(fund_name)) > 0
  THEN Some(sum(Col(DataFrame(filtered(fund_name)), "Qty")))
  ELSE Nothing

\* an iteration order that differs from one call of a session to the next
iterate_unstable(S) ==
  LET fixed == SelectSeq(set_order, LAMBDA f : f \in S)
  IN  IF Len(history) % 2 = 0 THEN fixed
      ELSE [k \in 1..Len(fixed) |-> fixed[Len(fixed) + 1 - k]]

\* the order in which a for-loop visits a set of fund names in this process
iterate(S) == SelectSeq(set_order, LAMBDA f : f \in S)

\* one loop that takes the first fund matching by its name or by a word
extract_fund_name_single_loop(q) ==
  LET all_funds == iterate(get_all_funds)
      question_lower == lower(q)
      matching == SelectSeq(all_funds,
                    LAMBDA fund :
                      \/ Contains(lower(fund), question_lower)
                      \/ \E word \in Range(split(lower(fund))) :
                           Len(word) > 3 /\ Contains(word, question_lower))
  IN  IF matching # <<>> THEN Head(matching) ELSE None

extract_fund_name(q) ==
  LET all_funds == iterate(get_all_funds)
      question_lower == lower(q)
      exact == SelectSeq(all_funds,
                 LAMBDA fund : Contains(lower(fund), question_lower))
      partial == SelectSeq(all_funds,
                   LAMBDA fund : \E word \in Range(split(lower(fund))) :
                                   Len(word) > 3 /\ Contains(word, question_lower))
  IN  IF exact # <<>> THEN Head(exact)
      ELSE IF partial # <<>> THEN Head(partial)
      ELSE None

(***************************************************************************)
(* The values process_question returns                                     *)
(***************************************************************************)
\* a response: its text around the formatted values (head), the text of one
\* list line (each), and the values: a fund name, a number, a list of
\* strings, a list of [name, value] items
Ans(head_text, each, fund, num, names, rows) ==
  [exc |-> FALSE, head |-> head_text, each |-> each, fund |-> fund, num |-> num,
   names |-> names, rows |-> rows]

Text(head_text) == Ans(head_text, "", None, 0, <<>>, <<>>)

\* the exception of subscripting None (self.holdings_df['ShortName'] on None)
Raised ==
  [exc |-> TRUE, head |-> "TypeError: 'NoneType' object is not subscriptable",
   each |-> "", fund |-> None, num |-> 0, names |-> <<>>, rows |-> <<>>]

\* no call has returned yet
NoAnswer == Text("")

EnterQuestion == Text("Please enter a question.")

Sentinel == Text("Sorry can not find the answer")

FundSentinel(fund_name) ==
  Ans("Sorry can not find the answer for fund '{fund_name}'", "", fund_name, 0, <<>>, <<>>)

HelpText ==
  Text("I can help you with questions about holdings and trades data. Here are some examples: ...")

\* the help text as the response to an unrecognised question
no_rule_answer_help == HelpText

\* the response of the final return statement, reached when no rule matched
no_rule_answer == Sentinel

\* the body shared by the YTD, MTD and QTD rules
pnl_answer(col, fund_head, all_head, q) ==
  LET fund_name == extract_fund_name(q)
  IN  IF fund_name # None
      THEN LET pnl == get_fund_pnl(col, fund_name)
           IN  IF pnl.some
               THEN Ans(fund_head, "",
                        fund_name, pnl.val, <<>>, <<>>)
               ELSE FundSentinel(fund_name)
      ELSE LET all_pnl == get_all_pnl(col)
           IN  IF all_pnl # <<>>
               THEN Ans(all_head, "  - {fund}: ${pnl:,.2f}\n",
                        None, 0, <<>>, sort_by_value(all_pnl, TRUE))
               ELSE Sentinel

\* the loop given up at the first keyword of the question, whatever its count
RECURSIVE sec_type_answer_first_present(_, _)
sec_type_answer_first_present(question_lower, k) ==
  IF k > Len(SecTypeKeywords) THEN Sentinel
  ELSE LET sec_type == SecTypeKeywords[k]
           count == get_holdings_by_security_type(sec_type)
       IN  IF Contains(lower(sec_type), question_lower)
           THEN IF count > 0
                THEN Ans("Number of {sec_type} holdings: {count}", "", None, count,
                         <<sec_type>>, <<>>)
                ELSE Sentinel
           ELSE sec_type_answer_first_present(question_lower, k + 1)

\* the loop of the security-type rule over the keywords from the k-th on
RECURSIVE sec_type_answer(_, _)
sec_type_answer(question_lower, k) ==
  IF k > Len(SecTypeKeywords) THEN Sentinel
  ELSE LET sec_type == SecTypeKeywords[k]
           count == get_holdings_by_security_type(sec_type)
       IN  IF Contains(lower(sec_type), question_lower) /\ count > 0
           THEN Ans("Number of {sec_type} holdings: {count}", "", None, count,
                    <<sec_type>>, <<>>)
           ELSE sec_type_answer(question_lower, k + 1)

\* the tables the body of the i-th if-statement subscripts
reads(i) ==
  CASE i \in {1, 2, 3, 7, 8, 9, 10, 11, 15, 16, 19} -> {"holdings_df", "trades_df"}
    [] i \in {4, 5, 6, 18} -> {"holdings_df"}
    [] i \in {12, 13, 14, 17} -> {"trades_df"}
    [] OTHER -> {}

\* the body of the i-th if-statement, both tables being DataFrames
handler(i, q, question_lower) ==
  CASE i = 1 ->
         LET funds == get_all_funds
         IN  IF funds # {}
             THEN Ans("Available funds/portfolios:\n", "  - {fund}", None, 0,
                      sorted(funds), <<>>)
             ELSE Sentinel
    [] i = 2 ->
         LET fund_name == extract_fund_name(q)
         IN  IF fund_name # None
             THEN LET count == get_total_holdings_for_fund(fund_name)
                  IN  IF count.some /\ count.val # 0
                      THEN Ans("Total number of holdings for {fund_name}: {count}", "",
                               fund_name, count.val, <<>>, <<>>)
                      ELSE FundSentinel(fund_name)
             ELSE Ans("Total number of holdings across all funds: {count}", "",
                      None, get_total_holdings, <<>>, <<>>)
    [] i = 3 ->
         LET fund_name == extract_fund_name(q)
         IN  IF fund_name # None
             THEN LET count == get_total_trades_for_fund(fund_name)
                  IN  IF count.some /\ count.val # 0
                      THEN Ans("Total number of trades for {fund_name}: {count}", "",
                               fund_name, count.val, <<>>, <<>>)
                      ELSE FundSentinel(fund_name)
             ELSE Ans("Total number of trades across all funds: {count}", "",
                      None, get_total_trades, <<>>, <<>>)
    [] i = 4 ->
         LET top_funds == get_best_performing_funds(10)
         IN  IF Len(top_funds) > 0
             THEN Ans("Best performing funds by YTD P&L:\n", "  {i}. {fund}: ${pnl:,.2f}\n",
                      None, 0, <<>>, enumerate(top_funds))
             ELSE Sentinel
    [] i = 5 ->
         LET worst_funds == get_worst_performing_funds(10)
         IN  IF Len(worst_funds) > 0
             THEN Ans("Worst performing funds by YTD P&L:\n", "  {i}. {fund}: ${pnl:,.2f}\n",
                      None, 0, <<>>, enumerate(worst_funds))
             ELSE Sentinel
    [] i = 6 ->
         LET ranking == get_fund_performance_ranking
         IN  IF Len(ranking) > 0
             THEN Ans("Fund Performance Ranking by YTD P&L:\n", "  {i}. {fund}: ${pnl:,.2f}\n",
                      None, 0, <<>>, enumerate(ranking))
             ELSE Sentinel
    [] i = 7 -> pnl_answer("PL_YTD", "YTD P&L for {fund_name}: ${pnl:,.2f}",
                           "YTD P&L for all funds:\n", q)
    [] i = 8 -> pnl_answer("PL_MTD", "MTD P&L for {fund_name}: ${pnl:,.2f}",
                           "MTD P&L for all funds:\n", q)
    [] i = 9 -> pnl_answer("PL_QTD", "QTD P&L for {fund_name}: ${pnl:,.2f}",
                           "QTD P&L for all funds:\n", q)
    [] i = 10 ->
         LET fund_name == extract_fund_name(q)
         IN  IF fund_name # None
             THEN LET securities == get_securities_for_fund(fund_name)
                  IN  IF securities # <<>>
                      THEN Ans("Securities held by {fund_name}:\n", "  - {sec}",
                               fund_name, 0, securities, <<>>)
                      ELSE FundSentinel(fund_name)
             ELSE Text("Please specify a fund name.")
    [] i = 11 ->
         LET fund_name == extract_fund_name(q)
         IN  IF fund_name # None
             THEN LET types == get_security_types_for_fund(fund_name)
                  IN  IF types # <<>>
                      THEN Ans("Security types for {fund_name}: ", "{type}, ",
                               fund_name, 0, types, <<>>)
                      ELSE FundSentinel(fund_name)
             ELSE LET types == get_security_types
                  IN  IF types # <<>>
                      THEN Ans("Available security types: ", "{type}, ", None, 0,
                               types, <<>>)
                      ELSE Sentinel
    [] i = 12 ->
         LET summary == get_trade_types_summary
         IN  IF summary # <<>>
             THEN Ans("Trade Types Summary:\n", "  - {trade_type}: {count}\n", None, 0,
                      <<>>, summary)
             ELSE Sentinel
    [] i = 13 ->
         LET count == get_trades_by_type(w_buy)
         IN  IF count > 0
             THEN Ans("Total number of Buy trades: {count}", "", None, count, <<>>, <<>>)
             ELSE Sentinel
    [] i = 14 ->
         LET count == get_trades_by_type(w_sell)
         IN  IF count > 0
             THEN Ans("Total number of Sell trades: {count}", "", None, count, <<>>, <<>>)
             ELSE Sentinel
    [] i = 15 ->
         LET fund_name == extract_fund_name(q)
         IN  IF fund_name # None
             THEN LET mv == get_fund_market_value(fund_name)
                  IN  IF mv.some
                      THEN Ans("Total market value for {fund_name}: ${mv:,.2f}", "",
                               fund_name, mv.val, <<>>, <<>>)
                      ELSE FundSentinel(fund_name)
             ELSE Ans("Total market value across all funds: ${total_mv:,.2f}", "",
                      None, sum(Col(holdings_df, "MV_Base")), <<>>, <<>>)
    [] i = 16 ->
         LET custodians == get_custodians
         IN  IF custodians # {}
             THEN Ans("Custodians:\n", "  - {c}", None, 0, sorted(custodians), <<>>)
             ELSE Sentinel
    [] i = 17 ->
         LET counterparties == get_counterparties
         IN  IF counterparties # <<>>
             THEN Ans("Counterparties:\n", "  - {c}", None, 0,
                      sorted(Range(counterparties)), <<>>)
             ELSE Sentinel
    [] i = 18 -> sec_type_answer(question_lower, 1)
    [] i = 19 ->
         LET fund_name == extract_fund_name(q)
         IN  IF fund_name # None
             THEN LET qty == get_total_quantity_for_fund(fund_name)
                  IN  IF qty.some
                      THEN Ans("Total quantity for {fund_name}: {qty:,.0f}", "",
                               fund_name, qty.val, <<>>, <<>>)
                      ELSE FundSentinel(fund_name)
             ELSE Text("Please specify a fund name for quantity information.")
    [] i = 20 -> HelpText

\* whether a table the rule subscripts is None
subscripts_none(i) ==
  \/ "holdings_df" \in reads(i) /\ ~holdings_df.loaded
  \/ "trades_df" \in reads(i) /\ ~trades_df.loaded

\* process_question: the position of the return (or raise) that ended the
\* call, and what it returned or raised
\* an if-chain whose handlers fall through to the next matching rule when
\* they find no data
RECURSIVE fallthrough_answer(_, _, _)
fallthrough_answer(i, q, question_lower) ==
  IF i = NoRule THEN no_rule_answer
  ELSE IF subscripts_none(i) THEN Raised
  ELSE IF handler(i, q, question_lower) = Sentinel
       THEN fallthrough_answer(first_match(question_lower, i + 1), q, question_lower)
       ELSE handler(i, q, question_lower)

process_question_fallthrough(q) ==
  LET question_lower == strip(lower(q))
  IN  IF question_lower = <<>>
      THEN [rule |-> EmptyCheck, answer |-> EnterQuestion]
      ELSE [rule |-> first_match(question_lower, 1),
            answer |-> fallthrough_answer(first_match(question_lower, 1), q,
                                          question_lower)]

process_question(q) ==
  LET question_lower == strip(lower(q))
  IN  IF question_lower = <<>>
      THEN [rule |-> EmptyCheck, answer |-> EnterQuestion]
      ELSE LET i == first_match(question_lower, 1)
           IN  [rule |-> i,
                answer |-> IF i = NoRule THEN no_rule_answer
                           ELSE IF subscripts_none(i) THEN Raised
                           ELSE handler(i, q, question_lower)]

(***************************************************************************)
(* The questions put to process_question                                   *)
(***************************************************************************)
q_how_many_holdings == Join(<<w_How, w_many, w_holdings, w_are, w_there_q>>)
q_total_holdings_ytum_main == Join(<<w_total, w_holdings, w_ytum, w_main>>)
q_how_many_buy_trades == Join(<<w_How, w_many, w_buy, w_trades_q>>)
q_ytd_for_ytum == Join(<<w_YTD, w_P_and_L, w_for, w_Ytum>>)
q_ytd_for_zzz == Join(<<w_YTD, w_P_and_L, w_for, w_Zzz>>)
q_total_trades_profit == Join(<<w_total, w_trades, w_profit>>)
q_hello == w_hello
q_mtd_for_all_funds == Join(<<w_MTD, w_P_and_L, w_for, w_all, w_funds>>)
q_equity_bond == Join(<<w_equity, w_bond>>)
q_equity_quantity_holdco == Join(<<w_equity, w_quantity, w_holdco>>)
q_how_many_holdings_main == Join(<<w_how, w_many, w_holdings, w_main>>)
q_quantity_for_ytum == Join(<<w_quantity, w_for, w_ytum>>)

Questions ==
  { <<>>, <<" ", " ">>,
    Join(<<w_List, w_all, w_funds>>),
    q_mtd_for_all_funds,
    q_how_many_holdings,
    Join(<<w_Total, w_number, w_of, w_holdings, w_for, w_HoldCo, w_n1>>),
    q_total_holdings_ytum_main,
    q_how_many_holdings_main,
    Join(<<w_How, w_many, w_trades, w_are, w_there_q>>),
    Join(<<w_total, w_trades, w_for, w_ytum, w_main>>),
    q_total_trades_profit,
    Join(<<w_Total, w_number, w_of, w_trades, w_for, w_HoldCo, w_n1>>),
    Join(<<w_Best, w_performing, w_funds>>),
    Join(<<w_Worst, w_performing, w_funds>>),
    Join(<<w_Fund, w_performance, w_ranking>>),
    q_ytd_for_ytum,
    q_ytd_for_zzz,
    Join(<<w_mtd, w_for, w_holdco>>),
    w_qtd,
    Join(<<w_What, w_securities, w_does, w_Ytum, w_hold_q>>),
    w_securities,
    Join(<<w_type, w_of, w_securities, w_for, w_ytum>>),
    Join(<<w_security, w_types>>),
    Join(<<w_Trade, w_types, w_summary>>),
    q_how_many_buy_trades,
    Join(<<w_number, w_of, w_buy, w_orders>>),
    Join(<<w_number, w_of, w_sell, w_orders>>),
    Join(<<w_Market, w_value, w_for, w_Ytum>>),
    Join(<<w_Total, w_market, w_value>>),
    Join(<<w_What, w_are, w_the, w_custodians_q>>),
    Join(<<w_What, w_are, w_the, w_counterparties_q>>),
    Join(<<w_Number, w_of, w_equity, w_holdings>>),
    q_equity_bond,
    q_equity_quantity_holdco,
    q_quantity_for_ytum,
    w_qty,
    w_help,
    q_hello }

\* the questions of a recorded session
SessionQuestions ==
  { q_how_many_holdings, q_total_holdings_ytum_main, q_ytd_for_ytum }

(***************************************************************************)
(* The state machine                                                       *)
(***************************************************************************)
\* every order in which a set can be iterated
Perms(S) ==
  {p \in [1..Cardinality(S) -> S] : \A i, j \in DOMAIN p : i # j => p[i] # p[j]}

\* no /ask request has been handled yet
NoRequest ==
  [body |-> [kind |-> "none", qtype |-> "none", q |-> <<>>],
   arg |-> "not called", status |-> 0, answer |-> NoAnswer]

\* the request threads of the server, and a thread without a request
Requests == {"r1", "r2"}

IdleRequest == [pc |-> "idle", question |-> <<>>, rule |-> -1, answer |-> NoAnswer]

\* main() before its first input()
MainStart ==
  [pc |-> "input", interrupted |-> FALSE, lines |-> <<>>, passed |-> <<>>,
   printed |-> <<>>]

\* DataChatbot(): load_data reads the two files in turn; when a read raises,
\* the exception is printed and the tables not yet assigned stay None
Init ==
  /\ \E h \in SeqsUpTo(HoldingRows, MaxHoldings), t \in SeqsUpTo(TradeRows, MaxTrades) :
       \/ holdings_df = DataFrame(h) /\ trades_df = DataFrame(t)
       \/ holdings_df = DataFrame(h) /\ trades_df = NoneDF
       \/ holdings_df = NoneDF /\ trades_df = NoneDF
  /\ set_order \in Perms(get_all_funds)
  /\ pc = "idle"
  /\ question = <<>>
  /\ rule = -1
  /\ answer = NoAnswer
  /\ history = <<>>
  /\ snapshot = <<holdings_df, trades_df>>
  /\ http = NoRequest
  /\ requests = [r \in Requests |-> IdleRequest]
  /\ main = MainStart

\* a caller (the loop of main, the /ask route) has a question to put
Receive(q) ==
  /\ pc = "idle"
  /\ pc' = "asked"
  /\ question' = q
  /\ rule' = -1
  /\ answer' = NoAnswer
  /\ UNCHANGED <<holdings_df, trades_df, set_order, history, snapshot, web_vars, main>>

\* a call that kept the filtered holdings of the fund it found in self.holdings_df
tables_after_filter_in_place(q) ==
  IF holdings_df.loaded /\ trades_df.loaded /\ extract_fund_name(q) # None
  THEN <<DataFrame(filtered(extract_fund_name(q))), trades_df>>
  ELSE <<holdings_df, trades_df>>

\* what a call of process_question leaves in self.holdings_df and
\* self.trades_df: no statement of the method or of the query methods assigns
\* either field or changes a DataFrame in place
tables_after(q) == <<holdings_df, trades_df>>

\* the call process_question(question) runs to its return or raise
Call ==
  /\ pc = "asked"
  /\ pc' = "idle"
  /\ LET result == process_question(question)
     IN  rule' = result.rule /\ answer' = result.answer
  /\ holdings_df' = tables_after(question)[1]
  /\ trades_df' = tables_after(question)[2]
  /\ UNCHANGED <<set_order, question, snapshot, web_vars, main>>

Answer == Call /\ UNCHANGED history

\* the same call, in a session whose questions and answers are recorded
AnswerRecorded ==
  Call /\ history' = Append(history, [question |-> question, answer |-> answer'])

Next == (\E q \in Questions : Receive(q)) \/ Answer

Spec == Init /\ [][Next]_vars

\* a question of a recorded session of at most MaxCalls calls
ReceiveInSession(q) == Len(history) < MaxCalls /\ Receive(q)

NextSession == (\E q \in SessionQuestions : ReceiveInSession(q)) \/ AnswerRecorded

SpecSession == Init /\ [][NextSession]_vars

\* ---------------------------------------------------------------------------
\* The trigger phrases asked one by one
\* ---------------------------------------------------------------------------

\* for each phrase written in the condition of rule r, the shortest question
\* that contains the phrase and makes the condition true: the phrase itself,
\* or the phrase with the other word the condition asks for. Conditions are
\* substring tests, so every rule triggered by such a question is triggered
\* by every longer question containing it.
PhraseQuestions(r) ==
  CASE r = 1 -> Range(ListFundsPhrases)
    [] r = 2 -> {Join(<<w_total, w_holdings>>), Join(<<how_many, w_holdings>>)}
    [] r = 3 -> {Join(<<w_total, w_trades>>), Join(<<how_many, w_trades>>)}
    [] r = 4 -> Range(BestPhrases)
    [] r = 5 -> Range(WorstPhrases)
    [] r = 6 -> Range(RankingPhrases)
    [] r = 7 -> Range(YtdPhrases)
    [] r = 8 -> {w_mtd, month_to_date}
    [] r = 9 -> {w_qtd, quarter_to_date}
    [] r = 10 -> Range(SecuritiesPhrases)
    [] r = 11 -> Range(SecurityTypesPhrases)
    [] r = 12 -> Range(TradeTypesPhrases)
    [] r = 13 -> {Join(<<how_many, w_buy>>), Join(<<number_of, w_buy>>),
                  Join(<<w_total, w_buy>>)}
    [] r = 14 -> {Join(<<how_many, w_sell>>), Join(<<number_of, w_sell>>),
                  Join(<<w_total, w_sell>>)}
    [] r = 15 -> Range(MarketValuePhrases)
    [] r = 16 -> {w_custodian}
    [] r = 17 -> {w_counterpart}
    [] r = 18 -> {lower(SecTypeKeywords[k]) : k \in 1..Len(SecTypeKeywords)}
    [] r = 19 -> {w_quantity, w_qty}
    [] r = 20 -> Range(HelpPhrases)

AllPhraseQuestions == UNION {PhraseQuestions(r) : r \in 1..NumRules}

NextPhrases == (\E q \in AllPhraseQuestions : Receive(q)) \/ Answer

SpecPhrases == Init /\ [][NextPhrases]_vars

\* ---------------------------------------------------------------------------
\* Rankings over many funds
\* ---------------------------------------------------------------------------

\* the largest number of funds in the holdings of a ranking
MaxFunds == 12

\* the short name of the k-th fund: FA, FB, ...
FundName(k) == <<"F", CodePointOrder[12 + k]>>

\* a holdings row of the k-th fund with the given YTD P/L
h_fund(k, pnl) ==
  [h_ytum EXCEPT !.ShortName = FundName(k), !.PortfolioName = FundName(k),
                 !.PL_YTD = pnl]

\* holdings.csv files of n funds: the YTD P/L rising or falling along the
\* file, the same for every fund, scattered with equal values, or spread
\* over two rows of each fund
RankingHoldings(n, pattern) ==
  CASE pattern = "rising" -> [k \in 1..n |-> h_fund(k, k)]
    [] pattern = "falling" -> [k \in 1..n |-> h_fund(k, 0 - k)]
    [] pattern = "tied" -> [k \in 1..n |-> h_fund(k, 7)]
    [] pattern = "scattered" -> [k \in 1..n |-> h_fund(k, ((k * 5) % 7) - 3)]
    [] pattern = "two rows" ->
         [k \in 1..n |-> h_fund(k, k)]
           \o [k \in 1..n |-> h_fund(n + 1 - k,
                                      IF (n + 1 - k) % 2 = 1 THEN 20 ELSE 0 - 20)]

RankingPatterns == {"rising", "falling", "tied", "scattered", "two rows"}

RankingQuestions == {BestPhrases[1], WorstPhrases[1], RankingPhrases[1]}

\* the rules asked here never iterate the set of fund names, so one iteration
\* order stands for all
InitRanking ==
  /\ \E n \in 0..MaxFunds, pattern \in RankingPatterns :
       holdings_df = DataFrame(RankingHoldings(n, pattern))
  /\ trades_df = DataFrame(<<>>)
  /\ set_order = sorted(get_all_funds)
  /\ pc = "idle"
  /\ question = <<>>
  /\ rule = -1
  /\ answer = NoAnswer
  /\ history = <<>>
  /\ snapshot = <<holdings_df, trades_df>>
  /\ http = NoRequest
  /\ requests = [r \in Requests |-> IdleRequest]
  /\ main = MainStart

NextRanking == (\E q \in RankingQuestions : Receive(q)) \/ Answer

SpecRanking == InitRanking /\ [][NextRanking]_vars

\* ---------------------------------------------------------------------------
\* Holdings with a fund name that holds a "."
\* ---------------------------------------------------------------------------

HoldCo_dot_1 == <<"H", "o", "l", "d", "C", "o", ".", "1">>

\* a holdings row of the fund HoldCo.1
h_holdco_dot ==
  [h_holdco EXCEPT !.ShortName = HoldCo_dot_1, !.PortfolioName = HoldCo_dot_1]

DottedHoldingRows == {h_ytum, h_holdco, h_holdco_dot}

q_total_holdings_holdco_dot == Join(<<w_total, w_holdings, w_for, lower(HoldCo_dot_1)>>)

q_total_holdings_holdco_1 == Join(<<w_total, w_holdings, w_for, w_holdco, w_n1>>)

DottedQuestions ==
  {q_total_holdings_holdco_dot, q_total_holdings_holdco_1, q_total_holdings_ytum_main,
   q_how_many_holdings}

InitDotted ==
  /\ \E h \in SeqsUpTo(DottedHoldingRows, MaxHoldings) : holdings_df = DataFrame(h)
  /\ trades_df = DataFrame(<<>>)
  /\ set_order \in Perms(get_all_funds)
  /\ pc = "idle"
  /\ question = <<>>
  /\ rule = -1
  /\ answer = NoAnswer
  /\ history = <<>>
  /\ snapshot = <<holdings_df, trades_df>>
  /\ http = NoRequest
  /\ requests = [r \in Requests |-> IdleRequest]
  /\ main = MainStart

NextDotted == (\E q \in DottedQuestions : Receive(q)) \/ Answer

SpecDotted == InitDotted /\ [][NextDotted]_vars

\* ---------------------------------------------------------------------------
\* The /ask route of the web server
\* ---------------------------------------------------------------------------

\* question.lower() on a value that is not a str
AttributeError ==
  [exc |-> TRUE, head |-> "AttributeError: object has no attribute 'lower'",
   each |-> "", fund |-> None, num |-> 0, names |-> <<>>, rows |-> <<>>]

\* a request body: a JSON object whose question is of type qtype ("absent"
\* when the object has no question), another JSON value, or no JSON at all
ObjectBody(qtype, q) == [kind |-> "object", qtype |-> qtype, q |-> q]

OtherBody(kind) == [kind |-> kind, qtype |-> "none", q |-> <<>>]

Bodies ==
  {ObjectBody("str", q) : q \in {q_hello, q_how_many_holdings, q_ytd_for_ytum, <<>>}}
    \cup {ObjectBody(t, <<>>) : t \in {"int", "NoneType", "list", "absent"}}
    \cup {OtherBody(k) : k \in {"array", "null", "malformed"}}

\* ask(): get_json parses the body (and refuses what is not JSON), data.get
\* reads the question with '' as the default (and raises on a body that is
\* not an object), and the value goes to process_question as it is
ask(body) ==
  IF body.kind = "malformed"
    THEN [body |-> body, arg |-> "not called", status |-> 400, answer |-> NoAnswer]
  ELSE IF body.kind # "object"
    THEN [body |-> body, arg |-> "not called", status |-> 500, answer |-> NoAnswer]
  ELSE LET question_type == IF body.qtype = "absent" THEN "str" ELSE body.qtype
       IN IF question_type # "str"
            THEN [body |-> body, arg |-> question_type, status |-> 500,
                  answer |-> AttributeError]
            ELSE LET result == process_question(body.q)
                 IN [body |-> body, arg |-> "str",
                     status |-> IF result.answer.exc THEN 500 ELSE 200,
                     answer |-> result.answer]

AskRoute(body) ==
  /\ http' = ask(body)
  /\ holdings_df' = tables_after(body.q)[1]
  /\ trades_df' = tables_after(body.q)[2]
  /\ UNCHANGED <<set_order, pc, question, rule, answer, history, snapshot, requests, main>>

NextAsk == \E body \in Bodies : AskRoute(body)

SpecAsk == Init /\ [][NextAsk]_vars

\* Concurrent requests: the server runs ask() in one thread per request, all
\* on the one module-level chatbot. A thread takes its question from the
\* body, then process_question selects the rule from the question alone, then
\* the rule's handler reads the shared tables and the answer is returned.
ConcurrentQuestions == {q_how_many_holdings, q_total_holdings_ytum_main, q_ytd_for_ytum}

Accept(r, q) ==
  /\ requests[r].pc = "idle"
  /\ requests' = [requests EXCEPT ![r] = [@ EXCEPT !.pc = "received", !.question = q]]
  /\ UNCHANGED <<holdings_df, trades_df, set_order, pc, question, rule, answer,
                 history, snapshot, http, main>>

Classify(r) ==
  /\ requests[r].pc = "received"
  /\ requests' = [requests EXCEPT ![r] =
                    [@ EXCEPT !.pc = "matched",
                              !.rule = process_question(requests[r].question).rule]]
  /\ UNCHANGED <<holdings_df, trades_df, set_order, pc, question, rule, answer,
                 history, snapshot, http, main>>

Respond(r) ==
  /\ requests[r].pc = "matched"
  /\ requests' = [requests EXCEPT ![r] =
                    [@ EXCEPT !.pc = "done",
                              !.answer = process_question(requests[r].question).answer]]
  /\ holdings_df' = tables_after(requests[r].question)[1]
  /\ trades_df' = tables_after(requests[r].question)[2]
  /\ UNCHANGED <<set_order, pc, question, rule, answer, history, snapshot, http, main>>

NextConcurrent ==
  \E r \in Requests :
    \/ \E q \in ConcurrentQuestions : Accept(r, q)
    \/ Classify(r)
    \/ Respond(r)

SpecConcurrent == Init /\ [][NextConcurrent]_vars

\* ---------------------------------------------------------------------------
\* The interactive loop of main()
\* ---------------------------------------------------------------------------

\* how many times the loop may call input()
MaxLines == 3

QuitWords ==
  {<<"q", "u", "i", "t">>, <<"e", "x", "i", "t">>, <<"b", "y", "e">>, <<"q">>}

\* the lines a user types
Lines ==
  {<<"q", "u", "i", "t">>, <<" ", "Q", " ">>, <<"B", "y", "e">>, <<" ", " ">>,
   <<>>, q_hello, q_how_many_holdings}

\* a quit word in other letter case is not recognised
is_quit_case_sensitive(text) == text \in QuitWords

\* question.lower() in ['quit', 'exit', 'bye', 'q']
is_quit(text) == lower(text) \in QuitWords

\* one print of the loop
Printed(kind, q, a) == [kind |-> kind, question |-> q, answer |-> a]

\* input() returns a line: the loop strips it, ends on a quit word, skips a
\* blank line and otherwise goes on to the call
MainInput(line) ==
  /\ main.pc = "input"
  /\ Len(main.lines) < MaxLines
  /\ LET text == strip(line)
     IN  main' =
           IF is_quit(text)
             THEN [main EXCEPT !.pc = "ended", !.lines = Append(@, line),
                               !.printed = Append(@, Printed("goodbye", <<>>, NoAnswer))]
           ELSE IF text = <<>>
             THEN [main EXCEPT !.lines = Append(@, line)]
           ELSE [main EXCEPT !.pc = "answer", !.lines = Append(@, line)]
  /\ UNCHANGED <<holdings_df, trades_df, set_order, pc, question, rule, answer,
                 history, snapshot, web_vars>>

\* input() raises EOFError: except Exception prints the error and the loop
\* goes on
MainEOF ==
  /\ main.pc = "input"
  /\ Len(main.printed) < MaxLines
  /\ main' = [main EXCEPT !.printed = Append(@, Printed("error", <<>>, NoAnswer))]
  /\ UNCHANGED <<holdings_df, trades_df, set_order, pc, question, rule, answer,
                 history, snapshot, web_vars>>

\* process_question(question) returns and the answer is printed, or it raises
\* and except Exception prints the error; either way the loop goes on
MainAnswer ==
  /\ main.pc = "answer"
  /\ LET text == strip(main.lines[Len(main.lines)])
         result == process_question(text)
     IN  main' = [main EXCEPT
                    !.pc = "input",
                    !.passed = Append(@, text),
                    !.printed = Append(@, Printed(IF result.answer.exc THEN "error" ELSE "bot",
                                                  text, result.answer))]
  /\ holdings_df' = tables_after(strip(main.lines[Len(main.lines)]))[1]
  /\ trades_df' = tables_after(strip(main.lines[Len(main.lines)]))[2]
  /\ UNCHANGED <<set_order, pc, question, rule, answer, history, snapshot, web_vars>>

\* Ctrl-C while the loop waits in input() or runs the call
MainInterrupt ==
  /\ main.pc \in {"input", "answer"}
  /\ main' = [main EXCEPT !.pc = "ended", !.interrupted = TRUE,
                          !.printed = Append(@, Printed("goodbye", <<>>, NoAnswer))]
  /\ UNCHANGED <<holdings_df, trades_df, set_order, pc, question, rule, answer,
                 history, snapshot, web_vars>>

NextMain ==
  \/ \E line \in Lines : MainInput(line)
  \/ MainEOF
  \/ MainAnswer
  \/ MainInterrupt

\* main() constructs its own DataChatbot; the loop reads the tables only
\* through process_question, so the holdings have at most one row here and
\* the trades none
InitMain ==
  /\ Init
  /\ Len(holdings_df.rows) <= 1
  /\ trades_df.rows = <<>>

SpecMain == InitMain /\ [][NextMain]_vars

(***************************************************************************)
(* Properties of process_question                                          *)
(***************************************************************************)
\* a call has returned (or raised) and its question and result are on record
Answered == pc = "idle" /\ rule # -1

BothLoaded == holdings_df.loaded /\ trades_df.loaded

\* the rules whose handler looks for a fund name in the question
FundScopedRules == {2, 3, 7, 8, 9, 10, 11, 15, 19}

\* the texts the trades-count rule and the three P&L rules answer with
TradesCountHeads ==
  { "Total number of trades for {fund_name}: {count}",
    "Total number of trades across all funds: {count}",
    "Sorry can not find the answer for fund '{fund_name}'" }

PnlHeads ==
  { "YTD P&L for {fund_name}: ${pnl:,.2f}", "YTD P&L for all funds:\n",
    "MTD P&L for {fund_name}: ${pnl:,.2f}", "MTD P&L for all funds:\n",
    "QTD P&L for {fund_name}: ${pnl:,.2f}", "QTD P&L for all funds:\n" }

\* C1: a non-empty question is answered by the rule of lowest priority number
\* whose trigger holds on the lowercased question (by the final return when
\* none holds); a question with "total", "trades" and a YTD P&L phrase is
\* never answered by the P&L rule, and is answered by the trades-count rule
\* unless the list-funds or the holdings-count trigger holds too.
C1_FirstMatchingRuleAnswers ==
  (Answered /\ strip(lower(question)) # <<>>) =>
    LET question_lower == strip(lower(question))
        matching == {j \in 1..NumRules : Trigger(j, question_lower)}
    IN  /\ \A j \in matching : rule <= j
        /\ rule \in matching \cup {NoRule}
        /\ (rule = NoRule) = (matching = {})
        /\ ( /\ Contains(w_total, question_lower)
             /\ Contains(w_trades, question_lower)
             /\ AnyIn(YtdPhrases, question_lower) ) =>
               /\ rule # 7
               /\ answer.head \notin PnlHeads
               /\ (1 \notin matching /\ 2 \notin matching) =>
                    /\ rule = 3
                    /\ (~answer.exc => answer.head \in TradesCountHeads)

\* C1 witness: "total trades profit" has been answered with the count of trades
C1_Witness ==
  /\ Answered
  /\ question = q_total_trades_profit
  /\ rule = 3
  /\ answer.head = "Total number of trades across all funds: {count}"
  /\ answer.num = 2

\* C2: a non-empty question on which no trigger holds gets exactly the generic
\* sentinel, whatever the two tables hold (also when they were never loaded).
C2_NoTriggerGivesSentinel ==
  (Answered /\ strip(lower(question)) # <<>>
     /\ \A j \in 1..NumRules : ~Trigger(j, strip(lower(question)))) =>
    answer = Sentinel

\* C2 witness: "hello" answered with the sentinel by a chatbot without tables
C2_Witness ==
  /\ Answered
  /\ question = q_hello
  /\ ~holdings_df.loaded
  /\ answer = Sentinel

\* no row of the table that rule i filters by fund matches the fund
NoRowMatches(i, fund_name) ==
  IF i = 3
  THEN \A k \in 1..Len(trades_df.rows) :
         ~Contains(lower(fund_name), lower(trades_df.rows[k].PortfolioName))
  ELSE \A k \in 1..Len(holdings_df.rows) :
         /\ ~Contains(lower(fund_name), lower(holdings_df.rows[k].ShortName))
         /\ ~Contains(lower(fund_name), lower(holdings_df.rows[k].PortfolioName))

\* C3: when a fund-scoped rule answers, a fund F is extracted from the question
\* and no row of the table the rule filters matches F, the response is the
\* fund-specific sentinel naming F.
C3_FundWithoutRowsGivesFundSentinel ==
  (Answered /\ rule \in FundScopedRules /\ BothLoaded) =>
    LET fund_name == extract_fund_name(question)
    IN  (fund_name # None /\ NoRowMatches(rule, fund_name)) =>
          /\ answer = FundSentinel(fund_name)
          /\ answer # Sentinel

\* C3 witness: an MTD question naming a fund that only the trades know
C3_Witness ==
  /\ Answered
  /\ rule = 8
  /\ holdings_df.rows # <<>>
  /\ answer = FundSentinel(Join(<<w_HoldCo, w_n1>>))

\* the fund identifiers of the two tables
FundIdentifiers ==
  {holdings_df.rows[k].ShortName : k \in 1..Len(holdings_df.rows)}
    \cup {holdings_df.rows[k].PortfolioName : k \in 1..Len(holdings_df.rows)}
    \cup {trades_df.rows[k].PortfolioName : k \in 1..Len(trades_df.rows)}

\* C4: the list-funds response lists, one "  - " line each, exactly the fund
\* identifiers of the three columns, each once, in ascending order.
C4_ListFundsComplete ==
  (Answered /\ rule = 1 /\ BothLoaded /\ FundIdentifiers # {}) =>
    /\ answer.head = "Available funds/portfolios:\n"
    /\ answer.each = "  - {fund}"
    /\ Range(answer.names) = FundIdentifiers
    /\ \A i, j \in 1..Len(answer.names) :
         i < j => str_less(answer.names[i], answer.names[j])

\* C4 witness: a list of three funds, one of them known to the trades alone
C4_Witness ==
  /\ Answered
  /\ rule = 1
  /\ Len(answer.names) = 3
  /\ \A k \in 1..Len(holdings_df.rows) :
       holdings_df.rows[k].ShortName # Join(<<w_HoldCo, w_n1>>)

\* the number of trades whose type is "buy", whatever its case
BuyRows ==
  Cardinality({k \in 1..Len(trades_df.rows) :
                 lower(trades_df.rows[k].TradeTypeName) = w_buy})

\* C5: "How many buy trades?" is answered with the number of buy trades.
C5_HowManyBuyTrades ==
  (Answered /\ question = q_how_many_buy_trades /\ BothLoaded /\ BuyRows >= 1) =>
    answer = Ans("Total number of Buy trades: {count}", "", None, BuyRows, <<>>, <<>>)

\* C6 as claimed: a question the YTD rule answers and in which no fund is
\* found gets the generic sentinel.
C6_NoFundGivesSentinel ==
  (Answered /\ rule = 7 /\ BothLoaded /\ extract_fund_name(question) = None) =>
    answer = Sentinel

\* the short names of the holdings, and the sum of a fund's year-to-date P/L
ShortNames == {holdings_df.rows[k].ShortName : k \in 1..Len(holdings_df.rows)}

RECURSIVE YtdOf(_, _)
YtdOf(short_name, k) ==
  IF k = 0 THEN 0
  ELSE YtdOf(short_name, k - 1)
         + (IF holdings_df.rows[k].ShortName = short_name
            THEN holdings_df.rows[k].PL_YTD ELSE 0)

\* C6: a question the YTD rule answers and in which no fund is found gets the
\* YTD P&L of every fund (one line per short name with the sum of its rows,
\* largest sum first) when the holdings have a row, and the generic sentinel
\* when the holdings table has no row.
C6_NoFundGivesAllFunds ==
  (Answered /\ rule = 7 /\ BothLoaded /\ extract_fund_name(question) = None) =>
    IF holdings_df.rows # <<>>
    THEN /\ answer.head = "YTD P&L for all funds:\n"
         /\ {answer.rows[k].name : k \in 1..Len(answer.rows)} = ShortNames
         /\ Len(answer.rows) = Cardinality(ShortNames)
         /\ \A k \in 1..Len(answer.rows) :
              answer.rows[k].value = YtdOf(answer.rows[k].name, Len(holdings_df.rows))
         /\ \A i, j \in 1..Len(answer.rows) :
              i < j => answer.rows[i].value >= answer.rows[j].value
    ELSE answer = Sentinel

\* C6 witness: "YTD P&L for Zzz" answered with the P&L of two funds
C6_Witness ==
  /\ Answered
  /\ question = q_ytd_for_zzz
  /\ rule = 7
  /\ answer.head = "YTD P&L for all funds:\n"
  /\ Len(answer.rows) = 2

\* C7: an empty or all-whitespace question gets "Please enter a question."
\* from the first return; no rule is tested and no table is read, so the
\* call returns even when the tables are None.
C7_EmptyQuestionPrompt ==
  (Answered /\ \A k \in 1..Len(question) : question[k] \in Whitespace) =>
    /\ answer = EnterQuestion
    /\ rule = EmptyCheck
    /\ ~answer.exc

\* C7 witness: a question of two spaces put to a chatbot without tables
C7_Witness ==
  /\ Answered
  /\ question = <<" ", " ">>
  /\ ~holdings_df.loaded
  /\ answer = EnterQuestion

\* C8: in a session, a question gets the same response at every position.
C8_SameQuestionSameAnswer ==
  \A i, j \in 1..Len(history) :
    history[i].question = history[j].question => history[i].answer = history[j].answer

\* C8 witness: a question naming two funds, asked first and asked again
\* after another question
C8_Witness ==
  /\ Len(history) = 3
  /\ history[1].question = q_total_holdings_ytum_main
  /\ history[2].question # q_total_holdings_ytum_main
  /\ history[3].question = q_total_holdings_ytum_main
  /\ w_Ytum \in get_all_funds
  /\ Join(<<w_Ytum, w_Main>>) \in get_all_funds
  /\ history[3].answer.fund # None

\* C9: after a failed load every call returns a string; none raises.
C9_NoRaiseAfterFailedLoad ==
  (Answered /\ ~BothLoaded) => ~answer.exc

\* C10: with a table of zero rows, the holdings-count, trades-count and
\* market-value questions without a fund get the sentinel.
C10_EmptyTableGivesSentinel ==
  (Answered /\ BothLoaded /\ extract_fund_name(question) = None
     /\ \/ rule \in {2, 15} /\ holdings_df.rows = <<>>
        \/ rule = 3 /\ trades_df.rows = <<>>) =>
    answer = Sentinel

\* C12: the help text's example "MTD P&L for all funds" is answered with the
\* month-to-date P&L of all funds.
C12_MtdForAllFunds ==
  (Answered /\ question = q_mtd_for_all_funds /\ BothLoaded
     /\ holdings_df.rows # <<>>) =>
    answer.head = "MTD P&L for all funds:\n"

\* C11: a request to /ask whose body is not a JSON object with a question of
\* string type is rejected before process_question is called, so that
\* process_question is only ever invoked with a string.
C11_NonStringRejected ==
  /\ http.arg \in {"not called", "str"}
  /\ (http.body.kind \notin {"none", "object"} \/ http.body.qtype # "str")
       => http.arg = "not called"

\* C13: every process_question call, whatever the question and the path it
\* takes, leaves the holdings table and the trades table as they were and
\* changes no other state of the instance.
C13_CallLeavesTablesUnchanged ==
  [][(pc = "asked" /\ pc' = "idle") =>
       /\ holdings_df' = holdings_df
       /\ trades_df' = trades_df
       /\ set_order' = set_order]_vars

\* a call that filtered the holdings by a fund has returned, and the table
\* still has the rows of the other funds
C13_Witness ==
  /\ Answered
  /\ answer.fund # None
  /\ Len(filtered(answer.fund)) < Len(holdings_df.rows)
  /\ <<holdings_df, trades_df>> = snapshot

\* C14: when several /ask requests run concurrently on the shared instance,
\* under every interleaving each request's answer is the answer its question
\* gets when processed alone, and the shared tables stay as they were loaded.
C14_ConcurrentAnswersAsAlone ==
  /\ <<holdings_df, trades_df>> = snapshot
  /\ \A r \in Requests :
       requests[r].pc = "done" =>
         requests[r].answer = process_question(requests[r].question).answer

\* two requests with different questions have both been answered from a
\* holdings table with rows of two funds
C14_Witness ==
  /\ \A r \in Requests : requests[r].pc = "done"
  /\ requests["r1"].question # requests["r2"].question
  /\ requests["r1"].answer # requests["r2"].answer
  /\ BothLoaded
  /\ Len(holdings_df.rows) = 2
  /\ holdings_df.rows[1] # holdings_df.rows[2]

\* a line that, stripped and lowercased, is one of quit, exit, bye, q
QuitLine(line) ==
  strip(lower(line)) \in
    {<<"q", "u", "i", "t">>, <<"e", "x", "i", "t">>, <<"b", "y", "e">>, <<"q">>}

\* the lines read so far that are neither blank nor a quit line, stripped
QuestionLines ==
  LET kept == SelectSeq(main.lines, LAMBDA line : strip(line) # <<>> /\ ~QuitLine(line))
  IN  [k \in 1..Len(kept) |-> strip(kept[k])]

\* what the loop printed for the calls of process_question
CallPrints == SelectSeq(main.printed, LAMBDA p : p.question # <<>>)

\* C15: the loop of main ends exactly on a quit line (or a keyboard
\* interrupt); a quit line is never passed to process_question; every other
\* non-blank line is passed exactly once, in order, and its answer is printed
\* before the next line is read; blank lines are skipped; an exception raised
\* while answering does not end the loop.
C15_MainLoop ==
  /\ main.pc = "ended" <=>
       \/ main.interrupted
       \/ main.lines # <<>> /\ QuitLine(main.lines[Len(main.lines)])
  /\ \A i \in 1..(Len(main.lines) - 1) : ~QuitLine(main.lines[i])
  /\ \A i \in 1..Len(main.passed) : ~QuitLine(main.passed[i]) /\ main.passed[i] # <<>>
  /\ \/ main.passed = QuestionLines
     \/ /\ main.pc = "answer" \/ main.interrupted
        /\ QuestionLines = Append(main.passed, strip(main.lines[Len(main.lines)]))
  /\ main.pc = "input" => main.passed = QuestionLines
  /\ Len(CallPrints) = Len(main.passed)
  /\ \A i \in 1..Len(main.passed) :
       /\ CallPrints[i].question = main.passed[i]
       /\ CallPrints[i].answer = process_question(main.passed[i]).answer
       /\ CallPrints[i].kind = "error" <=> CallPrints[i].answer.exc

\* the loop went on after a call that raised, answered another line, and
\* ended on a quit line typed in capitals
C15_Witness ==
  /\ main.pc = "ended"
  /\ ~main.interrupted
  /\ main.lines[Len(main.lines)] = <<" ", "Q", " ">>
  /\ Len(main.passed) >= 1
  /\ CallPrints[1].kind = "error"
  /\ \E i \in 1..Len(main.lines) : strip(main.lines[i]) = <<>>

\* the distinct short names of the holdings, and the YTD P/L summed per name
HoldingsFunds == {holdings_df.rows[k].ShortName : k \in 1..Len(holdings_df.rows)}

SummedYtd(fund) ==
  sum(Col(DataFrame(SelectSeq(holdings_df.rows, LAMBDA row : row.ShortName = fund)),
          "PL_YTD"))

\* a numbered list of min(10, number of funds) distinct funds with their sums,
\* ordered from best to worst (or from worst to best), no fund left out being
\* better (worse) than a listed one
TopTen(listed, best_first) ==
  LET shown == {listed[k].name : k \in 1..Len(listed)}
      Before(a, b) == IF best_first THEN a >= b ELSE a <= b
  IN  /\ Len(listed) = IF Cardinality(HoldingsFunds) < 10
                        THEN Cardinality(HoldingsFunds) ELSE 10
      /\ Cardinality(shown) = Len(listed)
      /\ shown \subseteq HoldingsFunds
      /\ \A k \in 1..Len(listed) :
           /\ listed[k].i = k
           /\ listed[k].value = SummedYtd(listed[k].name)
           /\ k < Len(listed) => Before(listed[k].value, listed[k + 1].value)
           /\ \A fund \in HoldingsFunds \ shown :
                Before(listed[k].value, SummedYtd(fund))

\* C16: a best-performing question is answered with min(10, number of
\* distinct holdings ShortNames) funds, numbered 1, 2, 3, ..., in
\* non-increasing order of summed YTD P/L, every fund left out having a sum
\* no greater than every fund listed; a worst-performing question the same
\* with the order and the comparison reversed.
C16_BestAndWorstTen ==
  /\ (Answered /\ rule = 4) => TopTen(answer.rows, TRUE)
  /\ (Answered /\ rule = 5) => TopTen(answer.rows, FALSE)

\* ten of more than ten funds are listed as the best, and a fund left out
\* comes earlier in the file than a listed one
C16_Witness ==
  /\ Answered
  /\ rule = 4
  /\ Cardinality(HoldingsFunds) > 10
  /\ Len(answer.rows) = 10
  /\ holdings_df.rows[1].ShortName \notin {answer.rows[k].name : k \in 1..10}
  /\ answer.rows[1].value > answer.rows[10].value

\* the keywords of the security-type rule that occur in the question, and the
\* number of holdings rows whose security type contains a keyword
PresentKeywords ==
  {k \in 1..Len(SecTypeKeywords) :
     Contains(lower(SecTypeKeywords[k]), strip(lower(question)))}

KeywordHits(k) ==
  Cardinality({r \in 1..Len(holdings_df.rows) :
                 Contains(lower(SecTypeKeywords[k]),
                          lower(holdings_df.rows[r].SecurityTypeName))})

\* C17: when the security-type rule is the first matching rule, the answer
\* reports the first keyword, in the order Equity, Bond, Option, AssetBacked,
\* FX Forward, that is present in the question and contained in the security
\* type of at least one holdings row; present keywords without such a row are
\* skipped; the generic sentinel is returned only when no present keyword has
\* a row.
C17_FirstKeywordWithHoldings ==
  (Answered /\ rule = 18 /\ holdings_df.loaded) =>
    LET winners == {k \in PresentKeywords : KeywordHits(k) > 0}
    IN  IF winners = {}
        THEN answer = Sentinel
        ELSE LET first == CHOOSE k \in winners : \A j \in winners : k <= j
             IN  /\ answer.head = "Number of {sec_type} holdings: {count}"
                 /\ answer.names = <<SecTypeKeywords[first]>>
                 /\ answer.num = KeywordHits(first)

\* "equity bond" asked of holdings without an equity row: equity is skipped
\* and the bond holdings are counted
C17_Witness ==
  /\ Answered
  /\ rule = 18
  /\ question = q_equity_bond
  /\ PresentKeywords = {1, 2}
  /\ KeywordHits(1) = 0
  /\ answer.names = <<w_Bond>>
  /\ answer.num = 2

\* the full name of a fund occurs in the question; a word of more than 3
\* characters of a fund occurs in the question
FullNameIn(fund, q) == Contains(lower(fund), lower(q))

WordIn(fund, q) ==
  \E word \in Range(split(lower(fund))) : Len(word) > 3 /\ Contains(word, lower(q))

\* C18: extract_fund_name returns none or a known fund; if the full name of
\* some known fund occurs in the question, a fund whose full name occurs
\* (never one matched only through a word); otherwise a fund with a word of
\* more than 3 characters occurring in the question if there is one; none
\* exactly when no fund matches either way.
C18_ExtractFundName ==
  (Answered /\ rule \in FundScopedRules /\ BothLoaded) =>
    LET fund == extract_fund_name(question)
    IN  /\ answer.fund = fund
        /\ fund = None \/ fund \in get_all_funds
        /\ (\E f \in get_all_funds : FullNameIn(f, question)) =>
             (fund # None /\ FullNameIn(fund, question))
        /\ ((\A f \in get_all_funds : ~FullNameIn(f, question))
              /\ (\E f \in get_all_funds : WordIn(f, question))) =>
             (fund # None /\ WordIn(fund, question))
        /\ fund = None <=>
             \A f \in get_all_funds : ~FullNameIn(f, question) /\ ~WordIn(f, question)

\* "quantity for ytum": the set yields "Ytum Main", which matches through
\* the word ytum only, before "Ytum", and "Ytum" is returned
C18_Witness ==
  /\ Answered
  /\ BothLoaded
  /\ question = q_quantity_for_ytum
  /\ set_order # <<>>
  /\ set_order[1] = Join(<<w_Ytum, w_Main>>)
  /\ ~FullNameIn(set_order[1], question)
  /\ answer.fund = w_Ytum

\* the heads of the responses a rule gives when it finds data
DataHeads(r) ==
  CASE r = 1 -> {"Available funds/portfolios:\n"}
    [] r = 2 -> {"Total number of holdings for {fund_name}: {count}",
                 "Total number of holdings across all funds: {count}"}
    [] r = 3 -> {"Total number of trades for {fund_name}: {count}",
                 "Total number of trades across all funds: {count}"}
    [] r = 4 -> {"Best performing funds by YTD P&L:\n"}
    [] r = 5 -> {"Worst performing funds by YTD P&L:\n"}
    [] r = 6 -> {"Fund Performance Ranking by YTD P&L:\n"}
    [] r = 7 -> {"YTD P&L for {fund_name}: ${pnl:,.2f}", "YTD P&L for all funds:\n"}
    [] r = 8 -> {"MTD P&L for {fund_name}: ${pnl:,.2f}", "MTD P&L for all funds:\n"}
    [] r = 9 -> {"QTD P&L for {fund_name}: ${pnl:,.2f}", "QTD P&L for all funds:\n"}
    [] r = 10 -> {"Securities held by {fund_name}:\n"}
    [] r = 11 -> {"Security types for {fund_name}: ", "Available security types: "}
    [] r = 12 -> {"Trade Types Summary:\n"}
    [] r = 13 -> {"Total number of Buy trades: {count}"}
    [] r = 14 -> {"Total number of Sell trades: {count}"}
    [] r = 15 -> {"Total market value for {fund_name}: ${mv:,.2f}",
                  "Total market value across all funds: ${total_mv:,.2f}"}
    [] r = 16 -> {"Custodians:\n"}
    [] r = 17 -> {"Counterparties:\n"}
    [] r = 18 -> {"Number of {sec_type} holdings: {count}"}
    [] r = 19 -> {"Total quantity for {fund_name}: {qty:,.0f}"}
    [] r = 20 -> {HelpText.head}

\* the heads of the sentinels and prompts
NoDataHeads ==
  {"Sorry can not find the answer",
   "Sorry can not find the answer for fund '{fund_name}'",
   "Please specify a fund name.",
   "Please specify a fund name for quantity information."}

\* C20: once a rule's trigger holds the answer comes from that rule alone: a
\* response of that rule, or a sentinel or prompt when its handler finds no
\* data, and never the response of a later rule whose trigger holds too; a
\* question with "equity" and "quantity" and no equity holding gets the
\* generic sentinel.
C20_NoFallThrough ==
  (Answered /\ rule \in 1..NumRules /\ ~answer.exc) =>
    /\ answer.head \in DataHeads(rule) \cup NoDataHeads
    /\ \A later \in (rule + 1)..NumRules : answer.head \notin DataHeads(later)
    /\ (question = q_equity_quantity_holdco /\ KeywordHits(1) = 0) =>
         answer = Sentinel

\* "equity quantity holdco" asked of holdings without an equity row but with
\* rows of HoldCo 1: the quantity rule would have answered
C20_Witness ==
  /\ Answered
  /\ BothLoaded
  /\ question = q_equity_quantity_holdco
  /\ rule = 18
  /\ KeywordHits(1) = 0
  /\ Trigger(19, strip(lower(question)))
  /\ extract_fund_name(question) # None
  /\ get_total_quantity_for_fund(extract_fund_name(question)).some
  /\ answer = Sentinel

\* C19: every trigger phrase written in a rule can select that rule: asked
\* with nothing else that could trigger another rule, the phrase is answered
\* by its own rule, so no phrase is completely shadowed by the trigger of a
\* rule tested earlier.
C19_EveryPhraseSelectsItsRule ==
  \A r \in 1..NumRules :
    (Answered /\ question \in PhraseQuestions(r)) => rule = r

\* the holdings rows whose ShortName or PortfolioName contains the fund name
\* as a case-insensitive substring, and those whose name is the fund name
RowsContaining(fund) ==
  {r \in 1..Len(holdings_df.rows) :
     \/ Contains(lower(fund), lower(holdings_df.rows[r].ShortName))
     \/ Contains(lower(fund), lower(holdings_df.rows[r].PortfolioName))}

RowsNamed(fund) ==
  {r \in 1..Len(holdings_df.rows) :
     \/ holdings_df.rows[r].ShortName = fund
     \/ holdings_df.rows[r].PortfolioName = fund}

\* C21: the count reported for a fund-scoped holdings count with extracted
\* fund F is the number of holdings rows whose ShortName or PortfolioName
\* contains F as a case-insensitive substring, each row counted once, and so
\* at least the number of rows whose name equals F.
C21_HoldingsCountBySubstring ==
  (Answered /\ rule = 2 /\ BothLoaded
     /\ answer.head = "Total number of holdings for {fund_name}: {count}") =>
    /\ answer.fund = extract_fund_name(question)
    /\ answer.num = Cardinality(RowsContaining(answer.fund))
    /\ answer.num >= Cardinality(RowsNamed(answer.fund))

====
